---- MODULE Spec2Model ----
(***************************************************************************)
(* Model of the validated submission pipeline of src/pages/Index.tsx: the  *)
(* zod form schema, the react-hook-form submit handler, the onSubmit       *)
(* request/response mapping and the result display.                        *)
(*                                                                         *)
(* JavaScript values are records [t, s, n]: t is the type tag, s the       *)
(* characters of a string (one-character strings), n a number in tenths    *)
(* (24.5 is n = 245), so that Number() of a text is computed digit by      *)
(* digit and a range check on a decimal is an integer comparison.          *)
(***************************************************************************)
EXTENDS Integers, Sequences, FiniteSets, TLC

VARIABLES
    values,     \* react-hook-form's field values, read by handleSubmit
    errors,     \* formState.errors: failing field -> message
    data,       \* the argument of the latest onSubmit call (validated record)
    isLoading,  \* useState(false), line 39
    result,     \* useState(null), line 38
    pending,    \* onSubmit invocations suspended at an await
    calls,      \* number of fetch calls issued so far
    settled,    \* how the latest finished onSubmit invocation ended
    lastEvent   \* the handler that ran last

vars == <<values, errors, data, isLoading, result, pending, calls, settled, lastEvent>>

----------------------------------------------------------------------------
(* Bounds of the model *)

\* submissions followed in one behaviour
MaxSubmits == 2

\* fields in which a drawn input differs from scenario A
MaxChanged == 2

----------------------------------------------------------------------------
(* JavaScript values *)

Undefined == [t |-> "undefined", s |-> <<>>, n |-> 0]

NaN == [t |-> "nan", s |-> <<>>, n |-> 0]

Str(s) == [t |-> "string", s |-> s, n |-> 0]

\* the number i.d (d one decimal digit)
Num(i, d) == [t |-> "number", s |-> <<>>, n |-> 10 * i + d]

Tenths(n) == [t |-> "number", s |-> <<>>, n |-> n]

Digits == {"0", "1", "2", "3", "4", "5", "6", "7", "8", "9"}

DigitValue(c) ==
    CASE c = "0" -> 0 [] c = "1" -> 1 [] c = "2" -> 2 [] c = "3" -> 3
      [] c = "4" -> 4 [] c = "5" -> 5 [] c = "6" -> 6 [] c = "7" -> 7
      [] c = "8" -> 8 [] c = "9" -> 9

RECURSIVE DigitsValue(_)
DigitsValue(ds) ==
    IF ds = <<>> THEN 0
    ELSE 10 * DigitsValue(SubSeq(ds, 1, Len(ds) - 1)) + DigitValue(ds[Len(ds)])

AllDigits(ds) == \A i \in 1..Len(ds) : ds[i] \in Digits

RECURSIVE TrimLeft(_)
TrimLeft(s) == IF s # <<>> /\ Head(s) = " " THEN TrimLeft(Tail(s)) ELSE s

RECURSIVE TrimRight(_)
TrimRight(s) ==
    IF s # <<>> /\ s[Len(s)] = " " THEN TrimRight(SubSeq(s, 1, Len(s) - 1)) ELSE s

\* Number(text): blank is 0, a signed decimal literal is its value, anything
\* else is NaN.  The texts of the model carry at most one fractional digit.
StringToNumber(s) ==
    LET t == TrimRight(TrimLeft(s))
        signed == t # <<>> /\ Head(t) \in {"-", "+"}
        neg == t # <<>> /\ Head(t) = "-"
        u == IF signed THEN Tail(t) ELSE t
        dots == {i \in 1..Len(u) : u[i] = "."}
        dot == IF dots = {} THEN Len(u) + 1
               ELSE CHOOSE i \in dots : \A j \in dots : i <= j
        ip == SubSeq(u, 1, dot - 1)
        fp == SubSeq(u, dot + 1, Len(u))
        ok == AllDigits(ip) /\ AllDigits(fp) /\ Len(ip) + Len(fp) >= 1
        mag == 10 * DigitsValue(ip) + (IF fp = <<>> THEN 0 ELSE DigitValue(fp[1]))
    IN  IF t = <<>> THEN Tenths(0)
        ELSE IF ~ok THEN NaN
        ELSE Tenths(IF neg THEN 0 - mag ELSE mag)

\* Number(v), the coercion of z.coerce.number() and of lines 60, 64-66
ToNumber(v) ==
    CASE v.t = "number" -> v
      [] v.t = "string" -> StringToNumber(v.s)
      [] OTHER -> NaN

----------------------------------------------------------------------------
(* The form schema, lines 19-28 *)

StringFields == {"gender", "hypertension", "heartDisease", "smokingHistory"}

NumberFields == {"age", "bmi", "hba1c", "bloodGlucose"}

Fields == StringFields \cup NumberFields

formSchema ==
    [gender         |-> [min |-> 1, minMsg |-> "Please select gender",
                         max |-> 0, maxMsg |-> ""],
     age            |-> [min |-> 1, minMsg |-> "Age must be at least 1",
                         max |-> 120, maxMsg |-> "Age must be less than 120"],
     hypertension   |-> [min |-> 1, minMsg |-> "Please select hypertension status",
                         max |-> 0, maxMsg |-> ""],
     heartDisease   |-> [min |-> 1, minMsg |-> "Please select heart disease status",
                         max |-> 0, maxMsg |-> ""],
     smokingHistory |-> [min |-> 1, minMsg |-> "Please select smoking history",
                         max |-> 0, maxMsg |-> ""],
     bmi            |-> [min |-> 10, minMsg |-> "BMI must be at least 10",
                         max |-> 60, maxMsg |-> "BMI must be less than 60"],
     hba1c          |-> [min |-> 3, minMsg |-> "HbA1c must be at least 3",
                         max |-> 15, maxMsg |-> "HbA1c must be less than 15"],
     bloodGlucose   |-> [min |-> 50, minMsg |-> "Blood glucose must be at least 50",
                         max |-> 400, maxMsg |-> "Blood glucose must be less than 400"]]

\* z.string().min(1, msg): the issues of one value, in order
StringIssuesDefaulted(v, rule) ==
    IF v.t = "undefined" THEN <<>>
    ELSE IF v.t # "string" THEN <<"Expected string">>
    ELSE IF Len(v.s) < rule.min THEN <<rule.minMsg>>
    ELSE <<>>

StringIssues(v, rule) ==
    IF v.t = "undefined" THEN <<"Required">>
    ELSE IF v.t # "string" THEN <<"Expected string">>
    ELSE IF Len(v.s) < rule.min THEN <<rule.minMsg>>
    ELSE <<>>

\* z.coerce.number().min(lo, msg).max(hi, msg): the issues of one value
NumberIssuesExclusiveMax(v, rule) ==
    LET c == ToNumber(v)
    IN  IF c.t = "nan" THEN <<"Expected number, received nan">>
        ELSE (IF c.n < 10 * rule.min THEN <<rule.minMsg>> ELSE <<>>)
             \o (IF c.n >= 10 * rule.max THEN <<rule.maxMsg>> ELSE <<>>)

NumberIssues(v, rule) ==
    LET c == ToNumber(v)
    IN  IF c.t = "nan" THEN <<"Expected number, received nan">>
        ELSE (IF c.n < 10 * rule.min THEN <<rule.minMsg>> ELSE <<>>)
             \o (IF c.n > 10 * rule.max THEN <<rule.maxMsg>> ELSE <<>>)

FieldIssues(f, v) ==
    IF f \in StringFields THEN StringIssues(v, formSchema[f])
    ELSE NumberIssues(v, formSchema[f])

\* the parsed output of the schema: strings as they are, numbers coerced
SchemaOutput(raw) ==
    [f \in Fields |-> IF f \in StringFields THEN raw[f] ELSE ToNumber(raw[f])]

\* a resolver that reports nothing
ResolverErrorsNone(raw) == [f \in {} |-> ""]

\* zodResolver(formSchema): one entry per failing field, its first issue
ResolverErrorsFirstOnly(raw) ==
    LET failing == {f \in Fields : FieldIssues(f, raw[f]) # <<>>}
        order == <<"gender", "age", "hypertension", "heartDisease",
                   "smokingHistory", "bmi", "hba1c", "bloodGlucose">>
        first == {f \in failing :
                    \A i, j \in 1..Len(order) :
                        (order[i] = f /\ order[j] \in failing) => i <= j}
    IN  [f \in first |-> FieldIssues(f, raw[f])[1]]

ResolverErrors(raw) ==
    LET failing == {f \in Fields : FieldIssues(f, raw[f]) # <<>>}
    IN  [f \in failing |-> FieldIssues(f, raw[f])[1]]

NoErrors == [f \in {} |-> ""]

NoData == [f \in Fields |-> Undefined]

----------------------------------------------------------------------------
(* String literals of the page *)

male == <<"m", "a", "l", "e">>

female == <<"f", "e", "m", "a", "l", "e">>

other == <<"o", "t", "h", "e", "r">>

yes == <<"y", "e", "s">>

no == <<"n", "o">>

never == <<"n", "e", "v", "e", "r">>

current == <<"c", "u", "r", "r", "e", "n", "t">>

former == <<"f", "o", "r", "m", "e", "r">>

ever == <<"e", "v", "e", "r">>

not_current == <<"n", "o", "t", "_", "c", "u", "r", "r", "e", "n", "t">>

\* the values the page's Select controls offer, lines 149-151, 186-187,
\* 205-206, 224-228
SelectItems ==
    [gender         |-> {male, female, other},
     hypertension   |-> {yes, no},
     heartDisease   |-> {yes, no},
     smokingHistory |-> {never, current, former, ever, not_current}]

----------------------------------------------------------------------------
(* onSubmit: request and response mapping, lines 50-84 *)

\* the object given to JSON.stringify, lines 58-67
RequestBodyFlagsSwapped(d) ==
    [gender              |-> d.gender,
     age                 |-> ToNumber(d.age),
     hypertension        |-> IF d.heartDisease = Str(yes) THEN Num(1, 0) ELSE Num(0, 0),
     heart_disease       |-> IF d.hypertension = Str(yes) THEN Num(1, 0) ELSE Num(0, 0),
     smoking_history     |-> d.smokingHistory,
     bmi                 |-> ToNumber(d.bmi),
     HbA1c_level         |-> ToNumber(d.hba1c),
     blood_glucose_level |-> ToNumber(d.bloodGlucose)]

RequestBody(d) ==
    [gender              |-> d.gender,
     age                 |-> ToNumber(d.age),
     hypertension        |-> IF d.hypertension = Str(yes) THEN Num(1, 0) ELSE Num(0, 0),
     heart_disease       |-> IF d.heartDisease = Str(yes) THEN Num(1, 0) ELSE Num(0, 0),
     smoking_history     |-> d.smokingHistory,
     bmi                 |-> ToNumber(d.bmi),
     HbA1c_level         |-> ToNumber(d.hba1c),
     blood_glucose_level |-> ToNumber(d.bloodGlucose)]

\* a property of the parsed response body: a string, or undefined when the
\* key is missing
Missing == [t |-> "undefined", v |-> ""]

Label(v) == [t |-> "string", v |-> v]

FinalResults ==
    {Missing, Label("Diabetic"), Label("Non-Diabetic"), Label("diabetic"), Label("")}

\* response bodies: not JSON, the JSON value null, or a JSON object
Bodies ==
    {[kind |-> "invalid", final_result |-> Missing],
     [kind |-> "null", final_result |-> Missing]}
    \cup {[kind |-> "object", final_result |-> fr] : fr \in FinalResults}

Statuses == {200, 500}

Responses == [status : Statuses, body : Bodies]

NoResponse == [status |-> 0, body |-> [kind |-> "invalid", final_result |-> Missing]]

Null == [t |-> "null", prediction |-> "", confidence |-> "null"]

\* setResult of lines 73-77, the label compared without regard to case
ParsedResultAnyCase(resultData) ==
    [t |-> "object",
     prediction |-> IF resultData.final_result \in {Label("Diabetic"), Label("diabetic")}
                    THEN "diabetic" ELSE "non-diabetic",
     confidence |-> "null"]

\* setResult of lines 73-77
ParsedResult(resultData) ==
    [t |-> "object",
     prediction |-> IF resultData.final_result = Label("Diabetic")
                    THEN "diabetic" ELSE "non-diabetic",
     confidence |-> "null"]

\* setResult of line 80
ErrorResult ==
    [t |-> "object", prediction |-> "Error connecting to server.", confidence |-> "null"]

\* the title of the result alert, lines 309-330 ("" when nothing is rendered)
DisplayTitle(r) ==
    IF r.t = "null" THEN ""
    ELSE IF r.prediction = "diabetic" THEN "High Risk: Diabetes Detected"
    ELSE "Low Risk: No Diabetes Detected"

\* disabled={isLoading} of the submit button, line 295
SubmitAlwaysEnabled == FALSE

SubmitDisabled == isLoading

NothingSettled == [id |-> 0, how |-> "none", response |-> NoResponse]

----------------------------------------------------------------------------
(* Inputs *)

\* the text a user types, as characters
T_blank == <<" ">>

T_abc == <<"a", "b", "c">>

\* scenario A of the specification, as the page's controls deliver it
ScenarioA ==
    [gender         |-> Str(female),
     age            |-> Str(<<"4", "5">>),
     hypertension   |-> Str(no),
     heartDisease   |-> Str(no),
     smokingHistory |-> Str(never),
     bmi            |-> Str(<<"2", "4", ".", "5">>),
     hba1c          |-> Str(<<"5", ".", "7">>),
     bloodGlucose   |-> Str(<<"1", "0", "0">>)]

\* the form before any edit: nothing selected, the inputs empty
EmptyForm ==
    [f \in Fields |-> IF f \in StringFields THEN Undefined ELSE Str(<<>>)]

\* forms a user fills in through the page's controls
SampleForms ==
    {EmptyForm,
     ScenarioA,
     [ScenarioA EXCEPT !.hypertension = Str(yes), !.gender = Str(male)],
     [ScenarioA EXCEPT !.age = Str(<<"0">>)],
     [ScenarioA EXCEPT !.age = Str(<<"1", "5", "0">>), !.bmi = Str(<<"5">>)],
     [ScenarioA EXCEPT !.smokingHistory = Undefined]}

\* values a caller of the validator may hand over for one field
FieldDomain(f) ==
    CASE f \in StringFields ->
            {Undefined, Str(<<>>), Str(<<"x">>)} \cup {Str(m) : m \in SelectItems[f]}
      [] f = "age" ->
            {Undefined, Str(<<>>), Str(T_blank), Str(T_abc),
             Num(0, 0), Num(0, 9), Num(1, 0), Str(<<"1">>), Num(120, 0),
             Str(<<"1", "2", "0">>), Num(120, 1), Num(150, 0)}
      [] f = "bmi" ->
            {Undefined, Str(<<>>), Str(T_abc),
             Num(5, 0), Num(9, 9), Num(10, 0), Str(<<"1", "0", ".", "0">>),
             Num(60, 0), Str(<<"6", "0", ".", "1">>)}
      [] f = "hba1c" ->
            {Undefined, Str(<<>>), Str(T_abc),
             Num(2, 9), Str(<<"3">>), Num(15, 0), Num(15, 1), Str(<<"-", "5">>)}
      [] f = "bloodGlucose" ->
            {Undefined, Str(<<>>), Str(T_abc),
             Num(49, 9), Num(50, 0), Str(<<"4", "0", "0">>), Num(400, 1),
             Str(<<"4", "0", "0", ".", "5">>)}

\* the values drawn for field f when the fields of C are the changed ones
Drawn(C, f) == IF f \in C THEN FieldDomain(f) ELSE {ScenarioA[f]}

\* the inputs that differ from scenario A in the fields of C at most
InputsChanging(C) ==
    [gender         : Drawn(C, "gender"),
     age            : Drawn(C, "age"),
     hypertension   : Drawn(C, "hypertension"),
     heartDisease   : Drawn(C, "heartDisease"),
     smokingHistory : Drawn(C, "smokingHistory"),
     bmi            : Drawn(C, "bmi"),
     hba1c          : Drawn(C, "hba1c"),
     bloodGlucose   : Drawn(C, "bloodGlucose")]

----------------------------------------------------------------------------
(* The page *)

Init ==
    /\ values = EmptyForm
    /\ errors = NoErrors
    /\ data = NoData
    /\ isLoading = FALSE
    /\ result = Null
    /\ pending = {}
    /\ calls = 0
    /\ settled = NothingSettled
    /\ lastEvent = "mount"

\* the user edits the form: setValue of the Select controls (lines 144, 181,
\* 200, 219) and typing into the registered inputs (lines 168, 246, 264, 281)
FillForm(raw) ==
    /\ raw # values
    /\ values' = raw
    /\ lastEvent' = "change"
    /\ UNCHANGED <<errors, data, isLoading, result, pending, calls, settled>>

\* a submit whose onSubmit leaves the previous result in place
SubmitKeepsResult ==
    /\ ~SubmitDisabled
    /\ LET errs == ResolverErrors(values)
       IN  IF errs # NoErrors
           THEN /\ errors' = errs
                /\ lastEvent' = "invalid"
                /\ UNCHANGED <<values, data, isLoading, result, pending, calls, settled>>
           ELSE /\ calls < MaxSubmits
                /\ errors' = NoErrors
                /\ data' = SchemaOutput(values)
                /\ isLoading' = TRUE
                /\ calls' = calls + 1
                /\ pending' = pending \cup
                       {[id |-> calls + 1, pc |-> "fetch",
                         body |-> RequestBody(SchemaOutput(values)),
                         response |-> NoResponse]}
                /\ lastEvent' = "onSubmit"
                /\ UNCHANGED <<values, settled, result>>

\* a submit that clears the result before the resolver has run
SubmitClearsFirst ==
    /\ ~SubmitDisabled
    /\ LET errs == ResolverErrors(values)
       IN  IF errs # NoErrors
           THEN /\ errors' = errs
                /\ result' = Null
                /\ lastEvent' = "invalid"
                /\ UNCHANGED <<values, data, isLoading, pending, calls, settled>>
           ELSE /\ calls < MaxSubmits
                /\ errors' = NoErrors
                /\ data' = SchemaOutput(values)
                /\ isLoading' = TRUE
                /\ result' = Null
                /\ calls' = calls + 1
                /\ pending' = pending \cup
                       {[id |-> calls + 1, pc |-> "fetch",
                         body |-> RequestBody(SchemaOutput(values)),
                         response |-> NoResponse]}
                /\ lastEvent' = "onSubmit"
                /\ UNCHANGED <<values, settled>>

\* a submit event on the form, line 138: handleSubmit runs the resolver and
\* calls onSubmit (lines 50-55, up to the await of fetch) when it passes.
\* The resolver's promise chain and the re-render that disables the button
\* complete before the next user event is dispatched, so this is one step.
Submit ==
    /\ ~SubmitDisabled
    /\ LET errs == ResolverErrors(values)
       IN  IF errs # NoErrors
           THEN /\ errors' = errs
                /\ lastEvent' = "invalid"
                /\ UNCHANGED <<values, data, isLoading, result, pending, calls, settled>>
           ELSE /\ calls < MaxSubmits
                /\ errors' = NoErrors
                /\ data' = SchemaOutput(values)
                /\ isLoading' = TRUE
                /\ result' = Null
                /\ calls' = calls + 1
                /\ pending' = pending \cup
                       {[id |-> calls + 1, pc |-> "fetch",
                         body |-> RequestBody(SchemaOutput(values)),
                         response |-> NoResponse]}
                /\ lastEvent' = "onSubmit"
                /\ UNCHANGED <<values, settled>>

\* a submit request while the button is disabled: no submit event is fired
SubmitWhileDisabled ==
    /\ SubmitDisabled
    /\ lastEvent' = "blocked"
    /\ UNCHANGED <<values, errors, data, isLoading, result, pending, calls, settled>>

\* the fetch of line 55 resolves with a response (any status resolves)
FetchResolve(p, resp) ==
    /\ p \in pending
    /\ p.pc = "fetch"
    /\ pending' = (pending \ {p}) \cup {[p EXCEPT !.pc = "json", !.response = resp]}
    /\ lastEvent' = "fetchResolved"
    /\ UNCHANGED <<values, errors, data, isLoading, result, calls, settled>>

\* the fetch rejects and the catch branch stores nothing
FetchRejectSilent(p) ==
    /\ p \in pending
    /\ p.pc = "fetch"
    /\ pending' = pending \ {p}
    /\ isLoading' = FALSE
    /\ settled' = [id |-> p.id, how |-> "fetchRejected", response |-> NoResponse]
    /\ lastEvent' = "fetchRejected"
    /\ UNCHANGED <<values, errors, data, calls, result>>

\* the fetch rejects and the catch branch issues the call again
FetchRejectRetries(p) ==
    /\ p \in pending
    /\ p.pc = "fetch"
    /\ calls < MaxSubmits
    /\ pending' = (pending \ {p}) \cup {[p EXCEPT !.id = calls + 1]}
    /\ calls' = calls + 1
    /\ lastEvent' = "fetchRejected"
    /\ UNCHANGED <<values, errors, data, isLoading, result, settled>>

\* the fetch of line 55 rejects: catch (lines 78-81), then line 83
FetchReject(p) ==
    /\ p \in pending
    /\ p.pc = "fetch"
    /\ pending' = pending \ {p}
    /\ result' = ErrorResult
    /\ isLoading' = FALSE
    /\ settled' = [id |-> p.id, how |-> "fetchRejected", response |-> NoResponse]
    /\ lastEvent' = "fetchRejected"
    /\ UNCHANGED <<values, errors, data, calls>>

\* response.json() of line 70 resolves with an object: lines 73-77 and 83
JsonResolve(p) ==
    /\ p \in pending
    /\ p.pc = "json"
    /\ p.response.body.kind = "object"
    /\ pending' = pending \ {p}
    /\ result' = ParsedResult(p.response.body)
    /\ isLoading' = FALSE
    /\ settled' = [id |-> p.id, how |-> "parsed", response |-> p.response]
    /\ lastEvent' = "jsonResolved"
    /\ UNCHANGED <<values, errors, data, calls>>

\* response.json() rejects (the body is not JSON), or resolves with null and
\* line 75 throws on the property access: catch (lines 78-81), then line 83
JsonFail(p) ==
    /\ p \in pending
    /\ p.pc = "json"
    /\ p.response.body.kind # "object"
    /\ pending' = pending \ {p}
    /\ result' = ErrorResult
    /\ isLoading' = FALSE
    /\ settled' = [id |-> p.id,
                   how |-> IF p.response.body.kind = "invalid"
                           THEN "jsonRejected" ELSE "threw",
                   response |-> p.response]
    /\ lastEvent' = "jsonFailed"
    /\ UNCHANGED <<values, errors, data, calls>>

Next ==
    \/ \E raw \in SampleForms : FillForm(raw)
    \/ Submit
    \/ SubmitWhileDisabled
    \/ \E p \in pending, resp \in Responses : FetchResolve(p, resp)
    \/ \E p \in pending : FetchReject(p)
    \/ \E p \in pending : JsonResolve(p)
    \/ \E p \in pending : JsonFail(p)

Spec == Init /\ [][Next]_vars

\* the page with the scheduling the runtime gives: a response that has
\* arrived is read and its continuation runs.  Nothing obliges the network
\* to settle the fetch of line 55, and the code sets no timeout on it.
SpecLive ==
    /\ Spec
    /\ WF_vars(\E p \in pending : JsonResolve(p))
    /\ WF_vars(\E p \in pending : JsonFail(p))

\* the validator and the request mapping applied to drawn inputs
InitValidate ==
    /\ \E C \in SUBSET Fields :
          /\ Cardinality(C) <= MaxChanged
          /\ values \in InputsChanging(C)
    /\ errors = NoErrors
    /\ data = NoData
    /\ isLoading = FALSE
    /\ result = Null
    /\ pending = {}
    /\ calls = 0
    /\ settled = NothingSettled
    /\ lastEvent = "mount"

NextValidate ==
    \/ Submit
    \/ SubmitWhileDisabled

SpecValidate == InitValidate /\ [][NextValidate]_vars

----------------------------------------------------------------------------
(* The declared constraints of the data model, and the outcome variants *)

EnumOf ==
    [gender         |-> {male, female, other},
     hypertension   |-> {yes, no},
     heartDisease   |-> {yes, no},
     smokingHistory |-> {never, current, former, ever, not_current}]

RangeOf ==
    [age          |-> [lo |-> 1, hi |-> 120],
     bmi          |-> [lo |-> 10, hi |-> 60],
     hba1c        |-> [lo |-> 3, hi |-> 15],
     bloodGlucose |-> [lo |-> 50, hi |-> 400]]

\* the value satisfies the constraint declared for its field
Satisfies(f, v) ==
    IF f \in StringFields
    THEN v.t = "string" /\ v.s \in EnumOf[f]
    ELSE LET c == ToNumber(v)
         IN  c.t = "number" /\ 10 * RangeOf[f].lo <= c.n /\ c.n <= 10 * RangeOf[f].hi

Absent(v) == v.t = "undefined" \/ v = Str(<<>>)

NotNumeric(f, v) == f \in NumberFields /\ ToNumber(v).t = "nan"

\* the field is missing, or breaks a numeric bound
Violates(f, v) ==
    IF f \in StringFields
    THEN Absent(v)
    ELSE LET c == ToNumber(v)
         IN  \/ Absent(v)
             \/ c.t # "number"
             \/ c.n < 10 * RangeOf[f].lo
             \/ c.n > 10 * RangeOf[f].hi

Validated == lastEvent \in {"onSubmit", "invalid"}

Outcome(r) ==
    CASE r.t = "null" -> "None"
      [] r.t # "null" /\ r.prediction = "diabetic" -> "Diabetic"
      [] r.t # "null" /\ r.prediction = "non-diabetic" -> "NonDiabetic"
      [] OTHER -> "RequestFailed"

\* the latest attempt has finished and its result is on display
Completed == ~isLoading /\ calls > 0 /\ settled.id = calls

WireKeys ==
    {"gender", "age", "hypertension", "heart_disease", "smoking_history",
     "bmi", "HbA1c_level", "blood_glucose_level"}

\* the key table of the remote interface read backwards
Decode(body) ==
    [gender         |-> body.gender,
     age            |-> body.age,
     hypertension   |-> IF body.hypertension = Num(1, 0) THEN Str(yes) ELSE Str(no),
     heartDisease   |-> IF body.heart_disease = Num(1, 0) THEN Str(yes) ELSE Str(no),
     smokingHistory |-> body.smoking_history,
     bmi            |-> body.bmi,
     hba1c          |-> body.HbA1c_level,
     bloodGlucose   |-> body.blood_glucose_level]

----------------------------------------------------------------------------
(* Claims *)

\* C1: after an attempt whose network call failed (fetch rejected or the body
\* could not be parsed) the display never shows the "Low Risk: No Diabetes
\* Detected" view.
C1_FailureNeverShownAsHealthy ==
    (Completed /\ settled.how \in {"fetchRejected", "jsonRejected"})
        => DisplayTitle(result) # "Low Risk: No Diabetes Detected"

\* C2: at most one attempt is in flight, and a submit request that arrives
\* while isLoading is true issues no call and changes neither isLoading nor
\* result.
C2_SingleFlight ==
    /\ [](Cardinality(pending) <= 1)
    /\ [][(isLoading /\ lastEvent' \in {"onSubmit", "invalid", "blocked"})
            => UNCHANGED <<isLoading, result, calls, pending>>]_vars

C2_Witness ==
    /\ lastEvent = "blocked"
    /\ isLoading
    /\ Cardinality(pending) = 1
    /\ calls = 1

\* C3: a response that parses but whose final_result is missing or is not a
\* recognized label completes with the RequestFailed outcome.
C3_UnrecognizedIsRequestFailed ==
    (/\ Completed
     /\ settled.how \in {"parsed", "threw"}
     /\ settled.response.body.final_result
            \notin {Label("Diabetic"), Label("Non-Diabetic")})
        => Outcome(result) = "RequestFailed"

\* C4: an input reaches onSubmit only if every field satisfies its declared
\* constraint, enum membership included.
C4_OnlyDeclaredValuesValidate ==
    lastEvent = "onSubmit" => \A f \in Fields : Satisfies(f, values[f])

\* C5: an input whose enum fields hold members and whose numeric fields lie
\* within their inclusive bounds validates, and the validated record holds
\* the coerced input values.
C5_WithinBoundsAccepted ==
    (Validated /\ \A f \in Fields : Satisfies(f, values[f]))
        => /\ lastEvent = "onSubmit"
           /\ errors = NoErrors
           /\ \A f \in StringFields : data[f] = values[f]
           /\ \A f \in NumberFields : data[f] = ToNumber(values[f])

C5_Witness ==
    /\ lastEvent = "onSubmit"
    /\ values.age = Num(120, 0)
    /\ values.bmi = Str(<<"1", "0", ".", "0">>)
    /\ data.age = Num(120, 0)
    /\ data.bmi = Num(10, 0)

\* C6: the keys of the failure map are exactly the fields that are missing
\* or break a numeric bound.
C6_ErrorKeysAreTheViolators ==
    Validated => DOMAIN errors = {f \in Fields : Violates(f, values[f])}

C6_Witness ==
    /\ lastEvent = "invalid"
    /\ values.age = Num(150, 0)
    /\ values.bmi = Num(5, 0)
    /\ DOMAIN errors = {"age", "bmi"}

\* C7: an absent or empty value, and a numeric field that is not numeric
\* after coercion, is an error on that field, and no validated record is
\* produced.
C7_AbsentOrNonNumericRejected ==
    Validated =>
        \A f \in Fields :
            (Absent(values[f]) \/ NotNumeric(f, values[f]))
                => /\ lastEvent = "invalid"
                   /\ f \in DOMAIN errors
                   /\ data = NoData
                   /\ pending = {}

C7_Witness ==
    /\ lastEvent = "invalid"
    /\ values.gender = Undefined
    /\ values.age = Str(T_abc)
    /\ {"gender", "age"} \subseteq DOMAIN errors

\* C8: the request body has exactly the eight wire keys, the strings and
\* numbers of the validated record unchanged, and the two flags as 1 for
\* "yes" and 0 otherwise.
C8_WireBody ==
    \A p \in pending :
        /\ DOMAIN p.body = WireKeys
        /\ p.body.gender = data.gender
        /\ p.body.smoking_history = data.smokingHistory
        /\ p.body.age = data.age
        /\ p.body.bmi = data.bmi
        /\ p.body.HbA1c_level = data.hba1c
        /\ p.body.blood_glucose_level = data.bloodGlucose
        /\ p.body.hypertension = (IF data.hypertension = Str(yes) THEN Num(1, 0) ELSE Num(0, 0))
        /\ p.body.heart_disease = (IF data.heartDisease = Str(yes) THEN Num(1, 0) ELSE Num(0, 0))

C8_Witness ==
    /\ values = [ScenarioA EXCEPT !.hypertension = Str(yes)]
    /\ \E p \in pending :
          p.body = [gender |-> Str(female), age |-> Num(45, 0),
                    hypertension |-> Num(1, 0), heart_disease |-> Num(0, 0),
                    smoking_history |-> Str(never), bmi |-> Num(24, 5),
                    HbA1c_level |-> Num(5, 7), blood_glucose_level |-> Num(100, 0)]

\* C9: decoding the request of a validated record through the key table
\* (1 -> "yes", 0 -> "no") gives back every field of the record.
C9_RoundTrip ==
    \A p \in pending : Decode(p.body) = data

\* C10: a response with a non-2xx status never completes with a Diabetic or
\* NonDiabetic outcome.
C10_Non2xxIsRequestFailed ==
    (/\ Completed
     /\ settled.how \in {"parsed", "jsonRejected", "threw"}
     /\ settled.response.status \notin 200..299)
        => Outcome(result) = "RequestFailed"

\* C11: for every successfully parsed response the outcome is Diabetic
\* exactly when final_result is "Diabetic", and every other parsed value
\* gives the non-diabetic outcome.
C11_ParsedIsDiabeticOrNot ==
    (Completed /\ settled.how \in {"parsed", "threw"})
        => Outcome(result) =
               (IF settled.response.body.final_result = Label("Diabetic")
                THEN "Diabetic" ELSE "NonDiabetic")

\* C11 as amended: the same for every response that parses to a JSON object;
\* a body that parses to null ends in the catch branch.
C11_ObjectIsDiabeticOrNot ==
    /\ (Completed /\ settled.how = "parsed")
          => Outcome(result) =
                 (IF settled.response.body.final_result = Label("Diabetic")
                  THEN "Diabetic" ELSE "NonDiabetic")
    /\ (Completed /\ settled.how = "threw") => result = ErrorResult

C11_Witness ==
    /\ Completed
    /\ settled.how = "parsed"
    /\ settled.response.body.final_result = Label("diabetic")
    /\ result.prediction = "non-diabetic"

\* C12: the calls issued are exactly the accepted submissions (those in
\* flight and those finished); only an accepted submit issues a call, it
\* issues one, and a failed attempt issues none.
C12_OneCallPerSubmission ==
    /\ [](calls = settled.id + Cardinality(pending))
    /\ [][calls' # calls => (lastEvent' = "onSubmit" /\ calls' = calls + 1)]_vars
    /\ [][(lastEvent' = "onSubmit" /\ lastEvent # "onSubmit")
            => (calls' = calls + 1 /\ Cardinality(pending') = Cardinality(pending) + 1)]_vars
    /\ [][lastEvent' \in {"fetchRejected", "jsonFailed"}
            => (calls' = calls /\ pending' = {})]_vars

C12_Witness ==
    /\ calls = 2
    /\ settled.id = 1
    /\ settled.how = "fetchRejected"
    /\ Cardinality(pending) = 1
    /\ lastEvent = "onSubmit"

\* C13: isLoading becomes true only by a submit whose validation succeeded;
\* a submit with invalid input from Idle exposes the per-field errors, stays
\* Idle and starts no attempt.
C13_SubmittingOnlyWhenValid ==
    /\ [][(~isLoading /\ isLoading')
            => /\ lastEvent' = "onSubmit"
               /\ \A f \in Fields : ~Violates(f, values[f])
               /\ errors' = NoErrors]_vars
    /\ [][(~isLoading /\ result = Null /\ lastEvent' = "invalid")
            => /\ errors' # NoErrors
               /\ DOMAIN errors' = {f \in Fields : Violates(f, values[f])}
               /\ UNCHANGED <<isLoading, result, calls, pending>>]_vars

C13_Witness ==
    /\ lastEvent = "invalid"
    /\ calls = 0
    /\ ~isLoading
    /\ result = Null
    /\ pending = {}
    /\ "age" \in DOMAIN errors

\* C14: an attempt that ends in a network error, whatever was completed
\* before it, ends in the same state as a failed first attempt: the error
\* result, not loading.
C14_FailureCarriesNothingOver ==
    (calls > 0 /\ pending = {}
        /\ settled.how \in {"fetchRejected", "jsonRejected", "threw"})
        => (result = ErrorResult /\ ~isLoading /\ settled.id = calls)

C14_Witness ==
    /\ calls = 2
    /\ settled.id = 2
    /\ settled.how = "fetchRejected"
    /\ result = ErrorResult
    /\ ~isLoading

\* C15: every submission that enters Submitting eventually leaves it
\* (isLoading false again), also when the remote call never answers.
C15_EventuallyCompleted == isLoading ~> ~isLoading

\* C16: whenever isLoading is true the stored result is empty.
C16_NoResultWhileLoading == isLoading => result = Null

C16_Witness ==
    /\ isLoading
    /\ result = Null
    /\ calls = 2
    /\ settled.how = "parsed"
    /\ settled.id = 1

\* C17: a result on display was produced by the attempt started last, and an
\* attempt never finishes after a newer one has started.
C17_NoStaleResult ==
    /\ [](result # Null
            => /\ settled.id = calls
               /\ result = (IF settled.how = "parsed"
                            THEN ParsedResult(settled.response.body)
                            ELSE ErrorResult))
    /\ [][settled' # settled => settled'.id = calls]_vars

C17_Witness ==
    /\ calls = 2
    /\ settled.id = 2
    /\ settled.how = "parsed"
    /\ result.prediction = "diabetic"
    /\ ~isLoading

\* C18: an enum or flag field that is absent or empty fails with its
\* "Please select ..." message, a numeric field below its minimum with the
\* minimum-bound message and one above its maximum with the maximum-bound
\* message; age 0 alone fails on age only.
C18_MessageMatchesViolation ==
    Validated =>
        /\ \A f \in StringFields :
              Absent(values[f])
                  => (f \in DOMAIN errors /\ errors[f] = formSchema[f].minMsg)
        /\ \A f \in NumberFields :
              LET c == ToNumber(values[f])
              IN  /\ (c.t = "number" /\ c.n < 10 * RangeOf[f].lo)
                        => (f \in DOMAIN errors /\ errors[f] = formSchema[f].minMsg)
                  /\ (c.t = "number" /\ c.n > 10 * RangeOf[f].hi)
                        => (f \in DOMAIN errors /\ errors[f] = formSchema[f].maxMsg)
        /\ values = [ScenarioA EXCEPT !.age = Num(0, 0)]
              => errors = [f \in {"age"} |-> "Age must be at least 1"]

\* C19: a submit whose validation fails leaves isLoading and result as they
\* were, from every state.
C19_InvalidSubmitLeavesState ==
    [][lastEvent' = "invalid"
         => UNCHANGED <<isLoading, result, calls, pending, settled>>]_vars

C19_Witness ==
    /\ lastEvent = "invalid"
    /\ errors # NoErrors
    /\ ~isLoading
    /\ calls = 1
    /\ DisplayTitle(result) = "High Risk: Diabetes Detected"

\* C20: once an attempt has been started, every state with isLoading false
\* carries a result; isLoading false with no result is the initial Idle only.
C20_IdleOnlyBeforeFirstAttempt ==
    (~isLoading /\ result = Null) => (calls = 0 /\ settled = NothingSettled)

C20_Witness ==
    /\ calls > 0
    /\ ~isLoading
    /\ settled.how = "jsonRejected"
    /\ result = ErrorResult

====
